---------------------------- MODULE Spec2Model ----------------------------
(***************************************************************************)
(* Model of the scanning toolkit in src/parser.go (package parser, the     *)
(* second, current version of the file: lines 161-336).                    *)
(*                                                                         *)
(* The input is a Go string, i.e. a sequence of bytes (integers 0..255).   *)
(* Runes are integers (code points).  A string used as a rune set          *)
(* (the "valid" / "stopper" arguments) is modelled by the set of its       *)
(* runes, since the code only asks strings.IndexRune(set, r) >= 0.         *)
(***************************************************************************)
EXTENDS Integers, Sequences, FiniteSets, TLC

VARIABLES
    input,        \* Parser.input
    start,        \* Parser.start
    pos,          \* Parser.pos
    width,        \* Parser.width
    line,         \* Parser.line
    linepos,      \* Parser.linepos
    linePrev,     \* Parser.linePrev
    lineposPrev,  \* Parser.lineposPrev
    err,          \* Parser.err
    astQueue,     \* Parser.astQueue (node identities)
    children,     \* the AddChild calls made so far: a sequence of <<parent, child>>
    built,        \* history: the last builder call and the stacks before it
    status,       \* "ok", "panic" (a Go runtime panic) or "hang" (a loop that never exits)
    undo,         \* history: a Next has been called and not yet backed up
    onlyReads,    \* history: every call so far was a Next that decoded a rune
    backups,      \* history: Backup calls made since the last Next (0 right after a
                  \* Next, 2 for two or more), or -1 when no Next was made or
                  \* another call came between
    last,         \* history: the last cursor call, its argument and its result
    runpc,        \* position of Run: "idle", "test", "call", "ret", "done"
    fn,           \* Run's parameter fn: "state" (a non-nil State) or "nil"
    runErr,       \* Run's named result err
    result,       \* the value Run returned (kind "none" until it returns)
    calls         \* history: number of state-function invocations made by Run

cursorVars  == <<start, pos, width, line, linepos, linePrev, lineposPrev, err>>
builderVars == <<astQueue, children, built>>
runVars     == <<runpc, fn, runErr, result, calls>>
histVars    == <<undo, onlyReads, backups, last>>
vars == <<input, cursorVars, builderVars, status, histVars, runVars>>

---------------------------------------------------------------------------
(* Bounds of the model. *)
MaxRunes == 2      \* generated inputs hold at most this many runes
MaxLine  == 2      \* calls are made only while |line| <= MaxLine
MaxCalls == 4      \* Run makes at most this many state-function invocations
MaxAdds  == 3      \* at most this many AddNode calls are made

(* Runes and bytes. *)
NL        == 10       \* '\n'
EOF       == 8718     \* rune('∎'), U+220E
RuneError == 65533    \* utf8.RuneError

Min(a, b) == IF a < b THEN a ELSE b
Max(a, b) == IF a > b THEN a ELSE b

\* s[i:] and s[i:j] of Go, for in-range indices (0-based, half-open)
SliceFrom(s, i) == SubSeq(s, i + 1, Len(s))
Slice(s, i, j)  == SubSeq(s, i + 1, j)

(***************************************************************************)
(* utf8.DecodeRuneInString: the rune at the head of s and its width.       *)
(* Empty string: (RuneError, 0).  Invalid or short encoding: (RuneError,1).*)
(***************************************************************************)
IsCont(b) == b >= 128 /\ b <= 191

LeadLen(b0) ==
    IF b0 >= 194 /\ b0 <= 223 THEN 2
    ELSE IF b0 >= 224 /\ b0 <= 239 THEN 3
    ELSE IF b0 >= 240 /\ b0 <= 244 THEN 4
    ELSE 0

\* accepted range of the second byte, by lead byte
SecondLo(b0) == IF b0 = 224 THEN 160 ELSE IF b0 = 240 THEN 144 ELSE 128
SecondHi(b0) == IF b0 = 237 THEN 159 ELSE IF b0 = 244 THEN 143 ELSE 191

DecodeRuneInString(s) ==
    IF Len(s) = 0 THEN [r |-> RuneError, w |-> 0]
    ELSE IF s[1] < 128 THEN [r |-> s[1], w |-> 1]
    ELSE LET n == LeadLen(s[1]) IN
         IF n = 0 \/ Len(s) < n THEN [r |-> RuneError, w |-> 1]
         ELSE IF s[2] < SecondLo(s[1]) \/ s[2] > SecondHi(s[1])
              THEN [r |-> RuneError, w |-> 1]
         ELSE IF n = 2 THEN [r |-> (s[1] % 32) * 64 + (s[2] % 64), w |-> 2]
         ELSE IF ~IsCont(s[3]) THEN [r |-> RuneError, w |-> 1]
         ELSE IF n = 3
              THEN [r |-> (s[1] % 16) * 4096 + (s[2] % 64) * 64 + (s[3] % 64), w |-> 3]
         ELSE IF ~IsCont(s[4]) THEN [r |-> RuneError, w |-> 1]
         ELSE [r |-> (s[1] % 8) * 262144 + (s[2] % 64) * 4096
                     + (s[3] % 64) * 64 + (s[4] % 64), w |-> 4]

\* the UTF-8 encoding of a rune below U+10000 (used to build inputs)
EncodeRune(r) ==
    IF r < 128 THEN <<r>>
    ELSE IF r < 2048 THEN <<192 + (r \div 64), 128 + (r % 64)>>
    ELSE <<224 + (r \div 4096), 128 + ((r \div 64) % 64), 128 + (r % 64)>>

RECURSIVE EncodeRunes(_)
EncodeRunes(rs) ==
    IF rs = <<>> THEN <<>> ELSE EncodeRune(Head(rs)) \o EncodeRunes(Tail(rs))

\* the runes of a string, decoded front to back
RECURSIVE Runes(_)
Runes(s) ==
    IF s = <<>> THEN <<>>
    ELSE LET d == DecodeRuneInString(s) IN <<d.r>> \o Runes(SliceFrom(s, d.w))

---------------------------------------------------------------------------
(* Inputs and rune sets the calls are tried on. *)
\* 'a', '\n' and the rune U+220E (three bytes)
Alphabet == {97, NL, EOF}

RuneSeqs == UNION {[1..n -> Alphabet] : n \in 0..MaxRunes}

HelloWorld == <<104, 101, 108, 108, 111, 32, 119, 111, 114, 108, 100>>  \* "hello world"
AbNlCd     == <<97, 98, 10, 99, 100>>                                   \* "ab\ncd"
Aaab       == <<97, 97, 97, 98>>                                        \* "aaab"

Inputs == {EncodeRunes(rs) : rs \in RuneSeqs} \cup {HelloWorld, AbNlCd, Aaab}

\* the "valid" and "stopper" strings, as sets of runes
RuneSets == {{}, {97}, {NL}, {EOF}, {97, NL}}

---------------------------------------------------------------------------
(* Error values.  ErrEOF is one fixed value; Errorf makes a fresh one. *)
NoErr  == [kind |-> "nil",    lineNo |-> 0, position |-> 0, context |-> <<>>]
ErrEOF == [kind |-> "ErrEOF", lineNo |-> 0, position |-> 0, context |-> <<>>]
Diag(l, c, ctx) == [kind |-> "diag", lineNo |-> l, position |-> c, context |-> ctx]

(***************************************************************************)
(* The cursor as a record, so that calls compose.  st carries a panic or   *)
(* a hang out of a nested call.                                            *)
(***************************************************************************)
P == [start |-> start, pos |-> pos, width |-> width, line |-> line,
      linepos |-> linepos, linePrev |-> linePrev, lineposPrev |-> lineposPrev,
      err |-> err, st |-> status]

Store(q) ==
    /\ start' = q.start /\ pos' = q.pos /\ width' = q.width
    /\ line' = q.line /\ linepos' = q.linepos
    /\ linePrev' = q.linePrev /\ lineposPrev' = q.lineposPrev
    /\ err' = q.err /\ status' = q.st

Panic(p) == [p EXCEPT !.st = "panic"]
Hang(p)  == [p EXCEPT !.st = "hang"]

\* s[i:] panics unless 0 <= i <= len(s)
CanSliceFrom(i) == i >= 0 /\ i <= Len(input)

---------------------------------------------------------------------------
(* Parser.Next, lines 234-252. *)

\* lines 235-239: nothing left to read
NextAtEndSilent(p) == [p |-> [p EXCEPT !.width = 0], r |-> EOF]

NextAtEnd(p) == [p |-> [p EXCEPT !.width = 0, !.err = ErrEOF], r |-> EOF]

\* lines 242-249: remember the position before the read, then count r
TrackNoReset(p, r) ==
    [p EXCEPT !.linePrev = p.line,
              !.lineposPrev = p.linepos,
              !.line = IF r = NL THEN p.line + 1 ELSE p.line,
              !.linepos = p.linepos + 1]

Track(p, r) ==
    [p EXCEPT !.linePrev = p.line,
              !.lineposPrev = p.linepos,
              !.line = IF r = NL THEN p.line + 1 ELSE p.line,
              !.linepos = IF r = NL THEN 0 ELSE p.linepos + 1]

NextOp(p) ==
    IF p.st # "ok" THEN [p |-> p, r |-> 0]
    ELSE IF p.pos >= Len(input) THEN NextAtEnd(p)
    ELSE IF ~CanSliceFrom(p.pos) THEN [p |-> Panic(p), r |-> 0]
    ELSE LET d == DecodeRuneInString(SliceFrom(input, p.pos))
         IN  [p |-> Track([p EXCEPT !.width = d.w, !.pos = p.pos + d.w], d.r),
              r |-> d.r]

(* Parser.Backup, lines 267-274: the rune decoded is the one at p.pos. *)
BackupOp(p) ==
    IF p.st # "ok" THEN p
    ELSE IF ~CanSliceFrom(p.pos) THEN Panic(p)
    ELSE LET d == DecodeRuneInString(SliceFrom(input, p.pos))
         IN  [p EXCEPT !.line = IF d.r = NL THEN p.line - 1 ELSE p.line,
                       !.linepos = p.lineposPrev,
                       !.pos = p.pos - p.width]

(* Parser.Peek, lines 276-280. *)
PeekOp(p) == LET n == NextOp(p) IN [p |-> BackupOp(n.p), r |-> n.r]

(* strings.IndexRune(valid, r) >= 0 *)
InSet(valid, r) == r \in valid

(* Parser.Accept, lines 282-288. *)
AcceptOp(p, valid) ==
    LET n == NextOp(p)
    IN  IF n.p.st # "ok" THEN [p |-> n.p, ok |-> FALSE]
        ELSE IF InSet(valid, n.r) THEN [p |-> n.p, ok |-> TRUE]
        ELSE [p |-> BackupOp(n.p), ok |-> FALSE]

(***************************************************************************)
(* Parser.AcceptRun, lines 290-294, and Parser.ForwardUntil, lines 297-301.*)
(* An iteration that continues the loop and leaves the parser exactly as   *)
(* it found it repeats for ever: the call never returns.                   *)
(***************************************************************************)
RECURSIVE AcceptRunOpNoBackup(_, _)
AcceptRunOpNoBackup(p, valid) ==
    LET n == NextOp(p)
    IN  IF n.p.st # "ok" THEN n.p
        ELSE IF InSet(valid, n.r)
             THEN IF n.p = p THEN Hang(p) ELSE AcceptRunOpNoBackup(n.p, valid)
        ELSE n.p

RECURSIVE AcceptRunOp(_, _)
AcceptRunOp(p, valid) ==
    LET n == NextOp(p)
    IN  IF n.p.st # "ok" THEN n.p
        ELSE IF InSet(valid, n.r)
             THEN IF n.p = p THEN Hang(p) ELSE AcceptRunOp(n.p, valid)
        ELSE BackupOp(n.p)

RECURSIVE ForwardUntilOp(_, _)
ForwardUntilOp(p, stopper) ==
    LET n == NextOp(p)
    IN  IF n.p.st # "ok" THEN n.p
        ELSE IF ~InSet(stopper, n.r)
             THEN IF n.p = p THEN Hang(p) ELSE ForwardUntilOp(n.p, stopper)
        ELSE BackupOp(n.p)

(* Parser.Emit, lines 255-259: input[start:pos] panics unless              *)
(* 0 <= start <= pos <= len(input).                                        *)
EmitOp(p) ==
    IF p.st # "ok" THEN [p |-> p, s |-> <<>>]
    ELSE IF ~(0 <= p.start /\ p.start <= p.pos /\ p.pos <= Len(input))
         THEN [p |-> Panic(p), s |-> <<>>]
    ELSE [p |-> [p EXCEPT !.start = p.pos], s |-> Slice(input, p.start, p.pos)]

(* Parser.Ignore, lines 261-263. *)
IgnoreOp(p) == IF p.st # "ok" THEN p ELSE [p EXCEPT !.start = p.pos]

(* Parser.Errorf, lines 303-322. *)
WindowStartShort(p) == IF p.pos - 4 < 0 THEN 0 ELSE p.pos - 4

WindowStart(p) == IF p.pos - 5 < 0 THEN 0 ELSE p.pos - 5
WindowEnd(p)   == IF p.pos + 5 > Len(input) THEN Len(input) ELSE p.pos + 5

ErrorfOp(p) ==
    IF p.st # "ok" THEN p
    ELSE IF ~(0 <= WindowStart(p) /\ WindowStart(p) <= WindowEnd(p))
         THEN Panic(p)
    ELSE [p EXCEPT !.err = Diag(p.line + 1, p.linepos + 1,
                                Slice(input, WindowStart(p), WindowEnd(p)))]

---------------------------------------------------------------------------
(* New, lines 199-204: a parser over the input with the root on the stack. *)
Root == "root"

NotReturned == [kind |-> "none", lineNo |-> 0, position |-> 0, context |-> <<>>]

Call(op, arg, r, ok, s) == [op |-> op, arg |-> arg, r |-> r, ok |-> ok, s |-> s]

New(in) ==
    /\ input = in
    /\ start = 0 /\ pos = 0 /\ width = 0
    /\ line = 0 /\ linepos = 0 /\ linePrev = 0 /\ lineposPrev = 0
    /\ err = NoErr
    /\ astQueue = <<Root>>
    /\ children = <<>>

BuilderCall(op, n, prev, before, before2, kids) ==
    [op |-> op, n |-> n, prev |-> prev, before |-> before, before2 |-> before2,
     kids |-> kids]

InitOver(ins) ==
    /\ \E in \in ins : New(in)
    /\ built = BuilderCall("New", Root, "New", <<>>, <<>>, 0)
    /\ status = "ok"
    /\ undo = FALSE /\ onlyReads = TRUE /\ backups = -1
    /\ last = Call("New", {}, 0, FALSE, <<>>)
    /\ runpc = "idle" /\ fn = "nil" /\ runErr = NoErr
    /\ result = NotReturned /\ calls = 0

Init == InitOver(Inputs)

\* a call is made only on a live program, and while line is within the bound
Callable == status = "ok" /\ line >= -MaxLine /\ line <= MaxLine

(***************************************************************************)
(* One call of each cursor method: its effect on the parser and on the     *)
(* history variables.                                                      *)
(***************************************************************************)
\* the history count of Backup calls since the last Next; 2 stands for two or more
CountBackup(k) == IF k < 0 THEN -1 ELSE IF k = 0 THEN 1 ELSE 2

DoNext ==
    LET n == NextOp(P)
    IN  /\ Store(n.p)
        /\ undo' = TRUE /\ backups' = 0
        /\ onlyReads' = (onlyReads /\ pos < Len(input))
        /\ last' = Call("Next", {}, n.r, FALSE, <<>>)

DoBackup ==
    /\ undo
    /\ Store(BackupOp(P))
    /\ undo' = FALSE /\ onlyReads' = FALSE
    /\ backups' = CountBackup(backups)
    /\ last' = Call("Backup", {}, 0, FALSE, <<>>)

DoPeek ==
    LET n == PeekOp(P)
    IN  /\ Store(n.p)
        /\ undo' = FALSE /\ onlyReads' = FALSE /\ backups' = -1
        /\ last' = Call("Peek", {}, n.r, FALSE, <<>>)

DoAccept(valid) ==
    LET n == AcceptOp(P, valid)
    IN  /\ Store(n.p)
        /\ undo' = FALSE /\ onlyReads' = FALSE /\ backups' = -1
        /\ last' = Call("Accept", valid, 0, n.ok, <<>>)

DoAcceptRun(valid) ==
    /\ Store(AcceptRunOp(P, valid))
    /\ undo' = FALSE /\ onlyReads' = FALSE /\ backups' = -1
    /\ last' = Call("AcceptRun", valid, 0, FALSE, <<>>)

DoForwardUntil(stopper) ==
    /\ Store(ForwardUntilOp(P, stopper))
    /\ undo' = FALSE /\ onlyReads' = FALSE /\ backups' = -1
    /\ last' = Call("ForwardUntil", stopper, 0, FALSE, <<>>)

DoEmit ==
    LET e == EmitOp(P)
    IN  /\ Store(e.p)
        /\ onlyReads' = FALSE
        /\ last' = Call("Emit", {}, 0, FALSE, e.s)
        /\ UNCHANGED <<undo, backups>>

DoIgnore ==
    /\ Store(IgnoreOp(P))
    /\ onlyReads' = FALSE
    /\ last' = Call("Ignore", {}, 0, FALSE, <<>>)
    /\ UNCHANGED <<undo, backups>>

DoErrorf ==
    /\ Store(ErrorfOp(P))
    /\ undo' = FALSE /\ onlyReads' = FALSE /\ backups' = -1
    /\ last' = Call("Errorf", {}, 0, FALSE, <<>>)

(* The methods called directly by the owner of the parser. *)
Direct == runpc = "idle" /\ Callable
Frame  == UNCHANGED <<input, builderVars, runVars>>

Next         == Direct /\ DoNext /\ Frame
Backup       == Direct /\ DoBackup /\ Frame
Peek         == Direct /\ DoPeek /\ Frame
Accept       == Direct /\ (\E v \in RuneSets : DoAccept(v)) /\ Frame
AcceptRun    == Direct /\ (\E v \in RuneSets : DoAcceptRun(v)) /\ Frame
ForwardUntil == Direct /\ (\E v \in RuneSets : DoForwardUntil(v)) /\ Frame
Emit         == Direct /\ DoEmit /\ Frame
Ignore       == Direct /\ DoIgnore /\ Frame
Errorf       == Direct /\ DoErrorf /\ Frame

CursorStep ==
    \/ Next \/ Backup \/ Peek \/ Accept \/ AcceptRun \/ ForwardUntil
    \/ Emit \/ Ignore \/ Errorf

Spec == Init /\ [][CursorStep]_vars

(***************************************************************************)
(* The same methods with Backup called at any time, also with no Next to   *)
(* undo or a second time.  linepos can then grow without limit, so calls   *)
(* are made only while it is within MaxLine of the length of the input.    *)
(***************************************************************************)
DoBackupAnyTime ==
    /\ Store(BackupOp(P))
    /\ undo' = FALSE /\ onlyReads' = FALSE
    /\ backups' = CountBackup(backups)
    /\ last' = Call("Backup", {}, 0, FALSE, <<>>)

InReach == linepos <= Len(input) + MaxLine

NextAnyTime   == Direct /\ InReach /\ DoNext /\ Frame
BackupAnyTime == Direct /\ InReach /\ DoBackupAnyTime /\ Frame

AnyTimeStep == NextAnyTime \/ BackupAnyTime

SpecAnyTime == Init /\ [][AnyTimeStep]_vars

(* Only the reading methods Next, Peek, Accept and AcceptRun. *)
ScanStep == Next \/ Peek \/ Accept \/ AcceptRun

SpecScan == Init /\ [][ScanStep]_vars

---------------------------------------------------------------------------
(* The builder stack, lines 206-224.  Nodes are identities; the only thing *)
(* the parser does with a node is call AddChild on it.                     *)
Nodes == {Root, "n1", "n2"}

\* Parser.currentNode, lines 210-212 (indexing an empty slice panics)
currentNode(q) == q[Len(q)]

\* Parser.AddNode, lines 214-217
AddNodeOpToRoot(b, n) ==
    IF b.st # "ok" THEN b
    ELSE IF Len(b.q) = 0 THEN [b EXCEPT !.st = "panic"]
    ELSE [b EXCEPT !.kids = Append(b.kids, <<b.q[1], n>>),
                   !.q = Append(b.q, n)]

AddNodeOp(b, n) ==
    IF b.st # "ok" THEN b
    ELSE IF Len(b.q) = 0 THEN [b EXCEPT !.st = "panic"]
    ELSE [b EXCEPT !.kids = Append(b.kids, <<currentNode(b.q), n>>),
                   !.q = Append(b.q, n)]

\* Parser.PopNode, lines 219-224
PopNodeOpUnguarded(b) ==
    IF b.st # "ok" THEN b
    ELSE IF Len(b.q) = 0 THEN [b EXCEPT !.st = "panic"]
    ELSE [b EXCEPT !.q = SubSeq(b.q, 1, Len(b.q) - 1)]

PopNodeOp(b) ==
    IF b.st # "ok" THEN b
    ELSE IF Len(b.q) < 2 THEN b
    ELSE [b EXCEPT !.q = SubSeq(b.q, 1, Len(b.q) - 1)]

B == [q |-> astQueue, kids |-> children, st |-> status]

StoreBuilder(b) == astQueue' = b.q /\ children' = b.kids /\ status' = b.st

AddNode ==
    /\ Direct
    /\ Len(children) < MaxAdds
    /\ \E n \in Nodes :
          /\ StoreBuilder(AddNodeOp(B, n))
          /\ built' = BuilderCall("AddNode", n, built.op, astQueue, built.before,
                                  Len(children))
    /\ UNCHANGED <<input, cursorVars, histVars, runVars>>

PopNode ==
    /\ Direct
    /\ StoreBuilder(PopNodeOp(B))
    /\ built' = BuilderCall("PopNode", Root, built.op, astQueue, built.before,
                            Len(children))
    /\ UNCHANGED <<input, cursorVars, histVars, runVars>>

BuilderStep == AddNode \/ PopNode

SpecBuilder == Init /\ [][BuilderStep]_vars

---------------------------------------------------------------------------
(* Parser.Run, lines 324-336. *)

\* line 325: the loop condition
RunLoopCondEOFOnly(e) == e # ErrEOF

RunLoopCond(e) == e = NoErr

\* lines 331-335: the value returned
RunValue(e, named) == IF e = ErrEOF THEN NoErr ELSE named

\* what one invocation of a state function does with the parser
StateBody ==
    \/ DoNext
    \/ DoBackup
    \/ DoPeek
    \/ \E v \in RuneSets : DoAccept(v)
    \/ \E v \in RuneSets : DoAcceptRun(v)
    \/ \E v \in RuneSets : DoForwardUntil(v)
    \/ DoEmit
    \/ DoIgnore
    \/ DoErrorf
    \/ UNCHANGED <<cursorVars, status, histVars>>

RunStart ==
    /\ runpc = "idle"
    /\ runpc' = "test"
    /\ fn' \in {"state", "nil"}
    /\ UNCHANGED <<input, cursorVars, builderVars, status, histVars, runErr, result, calls>>

RunTest ==
    /\ runpc = "test" /\ status = "ok"
    /\ runpc' = IF RunLoopCond(err) THEN "call" ELSE "ret"
    /\ UNCHANGED <<input, cursorVars, builderVars, status, histVars, fn, runErr, result, calls>>

\* line 326 with a nil fn: the call panics
RunCallNil ==
    /\ runpc = "call" /\ status = "ok" /\ fn = "nil"
    /\ status' = "panic"
    /\ UNCHANGED <<input, cursorVars, builderVars, histVars, runVars>>

\* lines 326-329: fn = fn(p), then break when it is nil
RunCall ==
    /\ runpc = "call" /\ Callable /\ fn = "state"
    /\ calls < MaxCalls
    /\ StateBody
    /\ calls' = calls + 1
    /\ \E nxt \in {"state", "nil"} :
          IF status' = "ok"
          THEN fn' = nxt /\ runpc' = IF nxt = "nil" THEN "ret" ELSE "test"
          ELSE fn' = fn /\ runpc' = runpc
    /\ UNCHANGED <<input, builderVars, runErr, result>>

RunReturn ==
    /\ runpc = "ret" /\ status = "ok"
    /\ result' = RunValue(err, runErr)
    /\ runpc' = "done"
    /\ UNCHANGED <<input, cursorVars, builderVars, status, histVars, fn, runErr, calls>>

\* Run may be called on a parser that has already been read from or failed
RunStep ==
    \/ Next \/ Errorf
    \/ RunStart \/ RunTest \/ RunCallNil \/ RunCall \/ RunReturn

SpecRun == Init /\ [][RunStep]_vars

\* Run called with a state function
RunStartState ==
    /\ runpc = "idle"
    /\ runpc' = "test"
    /\ fn' = "state"
    /\ UNCHANGED <<input, cursorVars, builderVars, status, histVars, runErr, result, calls>>

(***************************************************************************)
(* Run with the state function that calls AcceptRun("0123456789"), emits   *)
(* the token and returns nil.                                              *)
(***************************************************************************)
Digits == 48..57

OneTwoThreeAbc == <<49, 50, 51, 97, 98, 99>>   \* "123abc"
OneTwoThree    == <<49, 50, 51>>               \* "123"

\* '1', '2', 'a' and the rune U+220E
DigitInputs ==
    {EncodeRunes(rs) : rs \in UNION {[1..n -> {49, 50, 97, EOF}] : n \in 0..MaxRunes}}
        \cup {OneTwoThreeAbc, OneTwoThree}

RunCallDigits ==
    /\ runpc = "call" /\ status = "ok" /\ fn = "state"
    /\ LET e == EmitOp(AcceptRunOp(P, Digits))
       IN  /\ Store(e.p)
           /\ last' = Call("Emit", {}, 0, FALSE, e.s)
    /\ undo' = FALSE /\ onlyReads' = FALSE /\ backups' = -1
    /\ calls' = calls + 1
    /\ IF status' = "ok" THEN fn' = "nil" /\ runpc' = "ret"
                         ELSE fn' = fn /\ runpc' = runpc
    /\ UNCHANGED <<input, builderVars, runErr, result>>

DigitsStep == RunStartState \/ RunTest \/ RunCallDigits \/ RunReturn

SpecDigits == InitOver(DigitInputs) /\ [][DigitsStep]_vars

(***************************************************************************)
(* Run with state functions each invocation of which returns having moved  *)
(* pos forward or with err set.  The invocation count is capped well above *)
(* what the loop can reach.                                                *)
(***************************************************************************)
RunCallProgress ==
    /\ runpc = "call" /\ status = "ok" /\ fn = "state"
    /\ calls <= Len(input) + MaxCalls
    /\ StateBody
    /\ status' = "ok"
    /\ pos' > pos \/ err' # NoErr
    /\ calls' = calls + 1
    /\ \E nxt \in {"state", "nil"} :
          fn' = nxt /\ runpc' = IF nxt = "nil" THEN "ret" ELSE "test"
    /\ UNCHANGED <<input, builderVars, runErr, result>>

ProgressStep == RunStartState \/ RunTest \/ RunCallProgress \/ RunReturn

\* Run is sequential code: it keeps taking its next step
SpecProgress == Init /\ [][ProgressStep]_vars /\ WF_vars(ProgressStep)

---------------------------------------------------------------------------
(* Properties. *)

\* the rune at byte offset i of the input
RuneAt(i) == DecodeRuneInString(SliceFrom(input, i)).r

\* number of newline runes in a rune sequence
RECURSIVE Newlines(_)
Newlines(rs) ==
    IF rs = <<>> THEN 0
    ELSE (IF Head(rs) = NL THEN 1 ELSE 0) + Newlines(Tail(rs))

\* number of runes after the last newline of a rune sequence
RECURSIVE SinceNewline(_)
SinceNewline(rs) ==
    IF rs = <<>> \/ rs[Len(rs)] = NL THEN 0
    ELSE 1 + SinceNewline(SubSeq(rs, 1, Len(rs) - 1))

\* byte length of the longest prefix of s whose runes all belong to set
RECURSIVE RunBytes(_, _)
RunBytes(s, set) ==
    IF s = <<>> THEN 0
    ELSE LET d == DecodeRuneInString(s)
         IN  IF d.r \in set THEN d.w + RunBytes(SliceFrom(s, d.w), set) ELSE 0

(* C1: from a cursor state reached by reads, Peek leaves pos, line and     *)
(* column (linepos) exactly as they were before the call.                  *)
C1_PeekNoOp ==
    [][onlyReads /\ last'.op = "Peek"
         => pos' = pos /\ line' = line /\ linepos' = linepos]_vars

(* C2: when Run returns with a diagnostic recorded by Errorf on the        *)
(* cursor, the value it returns is that diagnostic.                        *)
C2_RunReturnsDiagnostic ==
    runpc = "done" /\ err.kind = "diag" => result = err

(* C3: every ForwardUntil call returns, with the cursor at the end of the  *)
(* input or just before a rune of the stop set.                            *)
C3_ForwardUntilTerminates ==
    last.op = "ForwardUntil"
        => /\ status = "ok"
           /\ pos = Len(input) \/ (pos < Len(input) /\ RuneAt(pos) \in last.arg)

(* C4: an Accept call that returns false leaves pos, line and column       *)
(* (linepos) as they were before the call.                                 *)
C4_AcceptFalseNoOp ==
    [][last'.op = "Accept" /\ status' = "ok" /\ ~last'.ok
         => pos' = pos /\ line' = line /\ linepos' = linepos]_vars

(* C5: start <= pos <= len(input) in every state reached by calls in which *)
(* each Backup undoes a Next not yet backed up (Emit and Ignore may come   *)
(* between the two).                                                       *)
C5_StartPosLen ==
    status = "ok" => start <= pos /\ pos <= Len(input)

(* C6: Run invokes a state function only while no terminal condition is    *)
(* set, and makes no further invocation once one has returned nil or left  *)
(* a terminal condition set.  (runpc = "call" with status "ok" is the      *)
(* point just before an invocation; with another status the invocation     *)
(* made there never returned.)                                             *)
C6_RunStops ==
    runpc = "call" /\ status = "ok"
        => err = NoErr /\ (calls > 0 => fn = "state")

C6_Witness ==
    runpc = "done" /\ calls > 1 /\ fn = "state" /\ err.kind = "diag"

(* C7: every AcceptRun call returns having advanced pos over exactly the   *)
(* longest run of runes of the set that starts at pos.                     *)
C7_AcceptRunMaximal ==
    [][last'.op = "AcceptRun"
         => status' = "ok"
            /\ pos' = pos + RunBytes(SliceFrom(input, pos), last'.arg)]_vars

(* C8: a Next made with pos at len(input) returns the end-of-input rune,   *)
(* sets err to ErrEOF and leaves pos unchanged; pos never exceeds          *)
(* len(input).                                                             *)
C8_NextAtEnd ==
    /\ [](pos <= Len(input))
    /\ [][last'.op = "Next" /\ pos >= Len(input)
            => last'.r = EOF /\ err' = ErrEOF /\ pos' = pos]_vars

C8_Witness ==
    /\ last.op = "Next" /\ last.r = EOF /\ err = ErrEOF
    /\ pos = Len(input) /\ Len(input) > 0 /\ width = 0

(* C9: after successful Next calls only, line is the number of newlines    *)
(* read and linepos the number of runes read since the last newline.       *)
C9_LineColumn ==
    onlyReads
        => /\ line = Newlines(Runes(Slice(input, 0, pos)))
           /\ linepos = SinceNewline(Runes(Slice(input, 0, pos)))

C9_Witness ==
    input = AbNlCd /\ onlyReads /\ pos = 4 /\ line = 1 /\ linepos = 1

(* C10: Errorf called with pos in 0..len(input) records line+1, linepos+1  *)
(* and the window input[max(0,pos-5) : min(len(input),pos+5)]; at pos 6 of *)
(* "hello world" that is line 1, position 7 and input[1:11].               *)
C10_ErrorfDiagnostic ==
    [][last'.op = "Errorf" /\ 0 <= pos /\ pos <= Len(input)
         => /\ err' = Diag(line + 1, linepos + 1,
                           Slice(input, Max(0, pos - 5), Min(Len(input), pos + 5)))
            /\ (input = HelloWorld /\ pos = 6
                  => err' = Diag(1, 7, <<101, 108, 108, 111, 32, 119, 111, 114, 108, 100>>))]_vars

C10_Witness ==
    /\ input = HelloWorld /\ pos = 6 /\ last.op = "Errorf"
    /\ err = Diag(1, 7, SubSeq(HelloWorld, 2, 11))

(* C11: the builder stack always holds at least one node and its bottom is *)
(* the root given to New; PopNode on a stack of depth 1 leaves it as it is.*)
C11_RootStays ==
    /\ Len(astQueue) >= 1
    /\ astQueue[1] = Root
    /\ (built.op = "PopNode" /\ Len(built.before) = 1 => astQueue = built.before)

C11_Witness ==
    /\ built.op = "PopNode" /\ built.before = <<Root>> /\ astQueue = <<Root>>
    /\ built.prev = "PopNode" /\ Len(children) > 0

(* C12: AddNode(n) makes exactly one AddChild call, AddChild(n) on the     *)
(* node that was on top, and pushes n; a PopNode made right after it       *)
(* restores the stack, its depth and its current node.                     *)
C12_AddThenPop ==
    /\ built.op = "AddNode"
          => /\ Len(children) = built.kids + 1
             /\ children[Len(children)] = <<currentNode(built.before), built.n>>
             /\ astQueue = Append(built.before, built.n)
             /\ currentNode(astQueue) = built.n
    /\ built.op = "PopNode" /\ built.prev = "AddNode"
          => /\ astQueue = built.before2
             /\ Len(astQueue) = Len(built.before2)
             /\ currentNode(astQueue) = currentNode(built.before2)

C12_Witness ==
    /\ built.op = "PopNode" /\ built.prev = "AddNode"
    /\ Len(built.before2) = 2 /\ astQueue = built.before2
    /\ children[Len(children)] = <<"n1", "n2">>

(* C13: Emit returns input[start:pos] and sets start to pos, leaving pos,  *)
(* line and column alone; an Emit made right after an Emit returns the     *)
(* empty string; no Emit panics.                                           *)
C13_EmitToken ==
    [][last'.op = "Emit"
         => /\ status' = "ok"
            /\ last'.s = Slice(input, start, pos)
            /\ start' = pos
            /\ pos' = pos /\ line' = line /\ linepos' = linepos
            /\ (last.op = "Emit" => last'.s = <<>>)]_vars

(* C14: Backup as the first call on a new parser changes nothing: pos,     *)
(* line and column stay 0 and the call does not panic.                     *)
C14_FirstBackupNoOp ==
    [][last.op = "New" /\ last'.op = "Backup"
         => status' = "ok" /\ pos' = 0 /\ line' = 0 /\ linepos' = 0]_vars

(* C15: a Next that returns the end-of-input rune was made with pos at or  *)
(* past len(input); a Next that decodes a rune never returns it.           *)
C15_SentinelOnlyAtEnd ==
    [][last'.op = "Next" /\ last'.r = EOF => pos >= Len(input)]_vars

(* C17: after Next, Backup, a second Backup leaves pos, line and column as *)
(* the first Backup left them, and pos is never negative.                  *)
C17_SecondBackupNoOp ==
    /\ [](pos >= 0)
    /\ [][backups = 1 /\ last'.op = "Backup"
            => status' = "ok" /\ pos' = pos /\ line' = line /\ linepos' = linepos]_vars

(* C19: once err holds a diagnostic of Errorf, no call of Next, Peek,      *)
(* Accept, AcceptRun, ForwardUntil, Backup, Emit or Ignore changes err.    *)
C19_DiagnosticSticky ==
    [][err.kind = "diag" /\ last'.op # "Errorf" => err' = err]_vars

(* C20: on an input without a newline, after calls of Next, Peek, Accept   *)
(* and AcceptRun that returned, line is 0 and the column (linepos) is the  *)
(* number of runes of input[0:pos].                                        *)
C20_ColumnCountsRunes ==
    status = "ok" /\ (\A i \in 1..Len(input) : input[i] # NL)
        => line = 0 /\ linepos = Len(Runes(Slice(input, 0, pos)))

(* C16: Run with the digits state function returns nil after one           *)
(* invocation that emitted the longest leading run of digits, with the     *)
(* cursor at the first non-digit; "123abc" gives "123" and the cursor at   *)
(* 'a'.                                                                    *)
C16_DigitsToken ==
    runpc = "done"
        => /\ calls = 1 /\ last.op = "Emit"
           /\ last.s = Slice(input, 0, RunBytes(input, Digits))
           /\ result = NoErr
           /\ pos = RunBytes(input, Digits)
           /\ (pos < Len(input) => RuneAt(pos) \notin Digits)
           /\ (input = OneTwoThreeAbc => last.s = OneTwoThree /\ RuneAt(pos) = 97)

C16_Witness ==
    /\ runpc = "done" /\ input = OneTwoThreeAbc
    /\ last.s = OneTwoThree /\ pos = 3 /\ result = NoErr

(* C18: when every invocation of a state function moves pos forward or     *)
(* leaves err set, Run returns, after at most len(input)+1 invocations.    *)
C18_RunTerminates ==
    /\ [](calls <= Len(input) + 1)
    /\ <>(runpc = "done")

C18_Witness ==
    runpc = "done" /\ calls = Len(input) + 1 /\ Len(input) >= 2 /\ fn = "state"

=============================================================================
